---- MODULE Spec2Model ----
(***************************************************************************)
(* scripts/echo_provider.py: an echo provider.  One process reads all of   *)
(* standard input, parses it with json.loads, looks up 'prompt' with the   *)
(* default '', builds {'output': prompt}, serializes it with json.dumps    *)
(* and prints it.                                                          *)
(*                                                                         *)
(* Text is a sequence of Unicode code points (naturals).  Python values    *)
(* are tagged records [t |-> type name, v |-> payload]:                    *)
(*   NoneType 0 | bool BOOLEAN | int Int | float [k, neg, m, e] |          *)
(*   str <<code points>> | list <<values>> | dict <<[key, val]>>           *)
(* A dict keeps insertion order, as Python's does.                         *)
(***************************************************************************)
EXTENDS Integers, Sequences, FiniteSets

(***************************************************************************)
(* Characters                                                              *)
(***************************************************************************)
\* The printable ASCII characters U+0020 .. U+005F, in code point order.
AsciiUpper ==
  << " ", "!", "\"", "#", "$", "%", "&", "'", "(", ")", "*", "+", ",", "-",
     ".", "/", "0", "1", "2", "3", "4", "5", "6", "7", "8", "9", ":", ";",
     "<", "=", ">", "?", "@", "A", "B", "C", "D", "E", "F", "G", "H", "I",
     "J", "K", "L", "M", "N", "O", "P", "Q", "R", "S", "T", "U", "V", "W",
     "X", "Y", "Z", "[", "\\", "]", "^", "_" >>

\* The printable ASCII characters U+0061 .. U+007E, in code point order.
AsciiLower ==
  << "a", "b", "c", "d", "e", "f", "g", "h", "i", "j", "k", "l", "m", "n",
     "o", "p", "q", "r", "s", "t", "u", "v", "w", "x", "y", "z", "{", "|",
     "}", "~" >>

\* ord(c) of a printable ASCII character.
Ord(c) ==
  IF \E i \in 1..Len(AsciiUpper) : AsciiUpper[i] = c
  THEN 31 + (CHOOSE i \in 1..Len(AsciiUpper) : AsciiUpper[i] = c)
  ELSE 96 + (CHOOSE i \in 1..Len(AsciiLower) : AsciiLower[i] = c)

\* The text of a sequence of printable ASCII characters.
T(chars) == [i \in 1..Len(chars) |-> Ord(chars[i])]

BS == Ord("b") - 90        \* U+0008 backspace
TAB == BS + 1              \* U+0009
LF == BS + 2               \* U+000A
FF == BS + 4               \* U+000C
CR == BS + 5               \* U+000D
EACUTE == 16 * 14 + 9      \* U+00E9, a character outside ASCII
EOT == 0 - 1               \* what At gives past the end of the text

At(s, i) == IF i \in 1..Len(s) THEN s[i] ELSE EOT

\* s[i:i+len(lit)] == lit
StartsWith(s, i, lit) ==
  /\ i + Len(lit) - 1 <= Len(s)
  /\ \A j \in 1..Len(lit) : s[i + j - 1] = lit[j]

IsDigit(c) == c \in Ord("0")..Ord("9")

\* int(c, 16) of one character; -1 when c is no hexadecimal digit.
HexVal(c) ==
  IF IsDigit(c) THEN c - Ord("0")
  ELSE IF c \in Ord("a")..Ord("f") THEN c - Ord("a") + 10
  ELSE IF c \in Ord("A")..Ord("F") THEN c - Ord("A") + 10
  ELSE 0 - 1

HexDigit(n) == IF n < 10 THEN Ord("0") + n ELSE Ord("a") + (n - 10)

(***************************************************************************)
(* Python values                                                           *)
(***************************************************************************)
None == [t |-> "NoneType", v |-> 0]
Bool(b) == [t |-> "bool", v |-> b]
PyInt(n) == [t |-> "int", v |-> n]
PyFloat(f) == [t |-> "float", v |-> f]
Str(s) == [t |-> "str", v |-> s]
List(items) == [t |-> "list", v |-> items]
Dict(pairs) == [t |-> "dict", v |-> pairs]

\* floats: m * 10^e with m not a multiple of 10 (0 has e = 0), or inf, or nan
Finite(neg, m, e) == [k |-> "fin", neg |-> neg, m |-> m, e |-> e]
Inf(neg) == [k |-> "inf", neg |-> neg, m |-> 0, e |-> 0]
NaN == [k |-> "nan", neg |-> FALSE, m |-> 0, e |-> 0]

\* the result of a scanning step: the value and the index after it
Ok(val, end) == [ok |-> TRUE, val |-> val, end |-> end]
Fail == [ok |-> FALSE, val |-> None, end |-> 0]

QUOTE == Ord("\"")
BACKSLASH == Ord("\\")
SLASH == Ord("/")
LBRACE == Ord("{")
RBRACE == Ord("}")
LBRACKET == Ord("[")
RBRACKET == Ord("]")
COLON == Ord(":")
COMMA == Ord(",")
SPACE == Ord(" ")
MINUS == Ord("-")
PLUS == Ord("+")
DOT == Ord(".")
ZERO == Ord("0")
TILDE == Ord("~")

(***************************************************************************)
(* json.loads: json/decoder.py and json/scanner.py, as called at line 8    *)
(***************************************************************************)
\* decoder.WHITESPACE: [ \t\n\r]*
WHITESPACE == {SPACE, TAB, LF, CR}

\* WHITESPACE.match(s, end).end()
RECURSIVE SkipWs(_, _)
SkipWs(s, end) == IF At(s, end) \in WHITESPACE THEN SkipWs(s, end + 1) ELSE end

\* decoder.BACKSLASH: the one-character escapes and what they stand for
Unescape(c) ==
  CASE c = QUOTE -> QUOTE
    [] c = BACKSLASH -> BACKSLASH
    [] c = SLASH -> SLASH
    [] c = Ord("b") -> BS
    [] c = Ord("f") -> FF
    [] c = Ord("n") -> LF
    [] c = Ord("r") -> CR
    [] c = Ord("t") -> TAB
    [] OTHER -> EOT

\* decoder._decode_uXXXX: the code point of the four hexadecimal digits at
\* s[pos+1 .. pos+4], or -1
DecodeUXXXX(s, pos) ==
  IF \A j \in 1..4 : HexVal(At(s, pos + j)) >= 0
  THEN 4096 * HexVal(s[pos + 1]) + 256 * HexVal(s[pos + 2])
       + 16 * HexVal(s[pos + 3]) + HexVal(s[pos + 4])
  ELSE 0 - 1

IsHighSurrogate(u) == u >= 55296 /\ u <= 56319
IsLowSurrogate(u) == u >= 56320 /\ u <= 57343

\* decoder.py_scanstring (strict): the string whose opening quote is at
\* end - 1.  Control characters are refused unescaped, an escape is one of
\* BACKSLASH's or \uXXXX, a surrogate pair of escapes is one character.
RECURSIVE ScanChunks(_, _, _)
ScanChunks(s, end, chunks) ==
  LET c == At(s, end) IN
  IF c = EOT THEN Fail
  ELSE IF c = QUOTE THEN Ok(chunks, end + 1)
  ELSE IF c < SPACE THEN Fail
  ELSE IF c # BACKSLASH THEN ScanChunks(s, end + 1, Append(chunks, c))
  ELSE LET esc == At(s, end + 1) IN
       IF esc = EOT THEN Fail
       ELSE IF esc # Ord("u")
            THEN IF Unescape(esc) = EOT THEN Fail
                 ELSE ScanChunks(s, end + 2, Append(chunks, Unescape(esc)))
       ELSE LET uni == DecodeUXXXX(s, end + 1) IN
            IF uni < 0 THEN Fail
            ELSE IF /\ IsHighSurrogate(uni)
                    /\ At(s, end + 6) = BACKSLASH /\ At(s, end + 7) = Ord("u")
                    /\ DecodeUXXXX(s, end + 7) >= 0
                    /\ IsLowSurrogate(DecodeUXXXX(s, end + 7))
                 THEN ScanChunks(s, end + 12, Append(chunks,
                        65536 + (uni - 55296) * 1024
                              + (DecodeUXXXX(s, end + 7) - 56320)))
                 ELSE ScanChunks(s, end + 6, Append(chunks, uni))

py_scanstring(s, end) == ScanChunks(s, end, << >>)

\* the index after the run of decimal digits starting at i
RECURSIVE DigitsEnd(_, _)
DigitsEnd(s, i) == IF IsDigit(At(s, i)) THEN DigitsEnd(s, i + 1) ELSE i

\* int() of the decimal digits s[i .. j-1]
RECURSIVE DigitsVal(_, _, _)
DigitsVal(s, i, j) ==
  IF j <= i THEN 0 ELSE 10 * DigitsVal(s, i, j - 1) + (s[j - 1] - ZERO)

RECURSIVE NumDigits(_)
NumDigits(n) == IF n < 10 THEN 1 ELSE 1 + NumDigits(n \div 10)

RECURSIVE Pow10(_)
Pow10(n) == IF n <= 0 THEN 1 ELSE 10 * Pow10(n - 1)

\* the first two decimal digits of m > 0, as a number 10 .. 99
LeadingTwo(m) ==
  IF m < 10 THEN 10 * m ELSE m \div Pow10(NumDigits(m) - 2)

\* m * 10^e with the trailing zeros of m moved into e
RECURSIVE Normalize(_, _, _)
Normalize(neg, m, e) ==
  IF m = 0 THEN Finite(neg, 0, 0)
  ELSE IF m % 10 = 0 THEN Normalize(neg, m \div 10, e + 1)
  ELSE Finite(neg, m, e)

\* the largest and smallest decimal exponents of a double
DBL_MAX_10_EXP == 308
DBL_MIN_10_EXP == 0 - 324

\* float(): the double nearest m * 10^e.  Beyond 1.8e308 it is inf, below
\* 2.5e-324 it is zero.  Mantissas here are short, so no digit is rounded
\* (the rounding of subnormals, below 1e-307, is left out).
ToFloat(neg, m, e) ==
  LET f == Normalize(neg, m, e)
      adj == NumDigits(f.m) + f.e - 1     \* f = d.ddd * 10^adj
  IN IF f.m = 0 THEN f
     ELSE IF adj > DBL_MAX_10_EXP
             \/ (adj = DBL_MAX_10_EXP /\ LeadingTwo(f.m) >= 18) THEN Inf(neg)
     ELSE IF adj < DBL_MIN_10_EXP
             \/ (adj = DBL_MIN_10_EXP /\ LeadingTwo(f.m) < 25)
          THEN Finite(neg, 0, 0)
     ELSE f

\* scanner.NUMBER_RE  (-?(?:0|[1-9]\d*))(\.\d+)?([eE][-+]?\d+)?  matched at
\* idx, and the int or float the scanner makes of it
MatchNumber(s, idx) ==
  LET neg == At(s, idx) = MINUS
      i0 == IF neg THEN idx + 1 ELSE idx
      i1 == IF At(s, i0) = ZERO THEN i0 + 1 ELSE DigitsEnd(s, i0)
      hasFrac == At(s, i1) = DOT /\ IsDigit(At(s, i1 + 1))
      i2 == IF hasFrac THEN DigitsEnd(s, i1 + 1) ELSE i1
      eSign == At(s, i2 + 1) \in {MINUS, PLUS}
      e0 == IF eSign THEN i2 + 2 ELSE i2 + 1
      hasExp == At(s, i2) \in {Ord("e"), Ord("E")} /\ IsDigit(At(s, e0))
      i3 == IF hasExp THEN DigitsEnd(s, e0) ELSE i2
      integer == DigitsVal(s, i0, i1)
      fracLen == IF hasFrac THEN i2 - (i1 + 1) ELSE 0
      frac == IF hasFrac THEN DigitsVal(s, i1 + 1, i2) ELSE 0
      expAbs == IF hasExp THEN DigitsVal(s, e0, i3) ELSE 0
      exp == IF At(s, i2 + 1) = MINUS THEN 0 - expAbs ELSE expAbs
  IN IF i1 = i0 THEN Fail
     ELSE IF hasFrac \/ hasExp
          THEN Ok(PyFloat(ToFloat(neg, integer * Pow10(fracLen) + frac,
                                  exp - fracLen)), i3)
     ELSE Ok(PyInt(IF neg THEN 0 - integer ELSE integer), i3)

\* dict(pairs) one pair at a time: a repeated key keeps its first place and
\* takes the last value
DictSet(pairs, key, val) ==
  IF \E i \in 1..Len(pairs) : pairs[i].key = key
  THEN [i \in 1..Len(pairs) |->
          IF pairs[i].key = key THEN [key |-> key, val |-> val] ELSE pairs[i]]
  ELSE Append(pairs, [key |-> key, val |-> val])

NULL == T(<<"n", "u", "l", "l">>)
TRUE_ == T(<<"t", "r", "u", "e">>)
FALSE_ == T(<<"f", "a", "l", "s", "e">>)
NAN == T(<<"N", "a", "N">>)
INFINITY == T(<<"I", "n", "f", "i", "n", "i", "t", "y">>)
NEG_INFINITY == <<MINUS>> \o INFINITY

RECURSIVE scan_once(_, _)
RECURSIVE ObjectMembers(_, _, _)
RECURSIVE ArrayItems(_, _, _)

\* decoder.JSONObject's loop after a value: d is the index of the next
\* character that is not white space
ObjectNext(s, d, pairs) ==
  IF At(s, d) = RBRACE THEN Ok(Dict(pairs), d + 1)
  ELSE IF At(s, d) # COMMA \/ At(s, SkipWs(s, d + 1)) # QUOTE THEN Fail
  ELSE ObjectMembers(s, SkipWs(s, d + 1) + 1, pairs)

\* decoder.JSONObject's loop after scan_once: value is what it returned
ObjectValue(s, key, value, pairs) ==
  IF ~value.ok THEN Fail
  ELSE ObjectNext(s, SkipWs(s, value.end), DictSet(pairs, key, value.val))

\* decoder.JSONObject's loop after a key: c is the index of the next
\* character that is not white space
ObjectColon(s, key, c, pairs) ==
  IF At(s, c) # COLON THEN Fail
  ELSE ObjectValue(s, key, scan_once(s, SkipWs(s, c + 1)), pairs)

\* decoder.JSONObject's loop after py_scanstring: key is what it returned
ObjectKey(s, key, pairs) ==
  IF ~key.ok THEN Fail ELSE ObjectColon(s, key.val, SkipWs(s, key.end), pairs)

\* decoder.JSONObject's loop: end is the index after the opening quote of a
\* key
ObjectMembers(s, end, pairs) == ObjectKey(s, py_scanstring(s, end), pairs)

\* decoder.JSONObject: end is the index after the opening brace
JSONObject(s, end) ==
  IF At(s, SkipWs(s, end)) = RBRACE THEN Ok(Dict(<< >>), SkipWs(s, end) + 1)
  ELSE IF At(s, SkipWs(s, end)) # QUOTE THEN Fail
  ELSE ObjectMembers(s, SkipWs(s, end) + 1, << >>)

\* decoder.JSONArray's loop after an item: d is the index of the next
\* character that is not white space
ArrayNext(s, d, values) ==
  IF At(s, d) = RBRACKET THEN Ok(List(values), d + 1)
  ELSE IF At(s, d) # COMMA THEN Fail
  ELSE ArrayItems(s, SkipWs(s, d + 1), values)

\* decoder.JSONArray's loop after scan_once: value is what it returned
ArrayValue(s, value, values) ==
  IF ~value.ok THEN Fail
  ELSE ArrayNext(s, SkipWs(s, value.end), Append(values, value.val))

\* decoder.JSONArray's loop: end is the index of the next item
ArrayItems(s, end, values) == ArrayValue(s, scan_once(s, end), values)

\* decoder.JSONArray: end is the index after the opening bracket
JSONArray(s, end) ==
  IF At(s, SkipWs(s, end)) = RBRACKET THEN Ok(List(<< >>), SkipWs(s, end) + 1)
  ELSE ArrayItems(s, SkipWs(s, end), << >>)

\* scanner.py_make_scanner's _scan_once for a string: r is what
\* py_scanstring returned
StringValue(r) == IF r.ok THEN Ok(Str(r.val), r.end) ELSE Fail

\* scanner.py_make_scanner's _scan_once after NUMBER_RE: the number, or one
\* of the constants NaN, Infinity and -Infinity (parse_constant), or
\* StopIteration
NumberOrConstant(s, idx, m) ==
  IF m.ok THEN m
  ELSE IF StartsWith(s, idx, NAN) THEN Ok(PyFloat(NaN), idx + 3)
  ELSE IF StartsWith(s, idx, INFINITY) THEN Ok(PyFloat(Inf(FALSE)), idx + 8)
  ELSE IF StartsWith(s, idx, NEG_INFINITY) THEN Ok(PyFloat(Inf(TRUE)), idx + 9)
  ELSE Fail

\* scanner.py_make_scanner's _scan_once: the value that starts at idx
scan_once(s, idx) ==
  IF At(s, idx) = EOT THEN Fail
  ELSE IF At(s, idx) = QUOTE THEN StringValue(py_scanstring(s, idx + 1))
  ELSE IF At(s, idx) = LBRACE THEN JSONObject(s, idx + 1)
  ELSE IF At(s, idx) = LBRACKET THEN JSONArray(s, idx + 1)
  ELSE IF StartsWith(s, idx, NULL) THEN Ok(None, idx + 4)
  ELSE IF StartsWith(s, idx, TRUE_) THEN Ok(Bool(TRUE), idx + 4)
  ELSE IF StartsWith(s, idx, FALSE_) THEN Ok(Bool(FALSE), idx + 5)
  ELSE NumberOrConstant(s, idx, MatchNumber(s, idx))

\* JSONDecoder.decode after raw_decode: nothing but white space may follow
\* the value ("Extra data")
Decoded(s, r) == IF r.ok /\ SkipWs(s, r.end) = Len(s) + 1 THEN r ELSE Fail

\* json.loads(s) = JSONDecoder.decode(s): one value between optional white
\* space.  ok = FALSE is JSONDecodeError.
loads(s) == Decoded(s, scan_once(s, SkipWs(s, 1)))

(***************************************************************************)
(* json.dumps: json/encoder.py, as called at line 16                       *)
(***************************************************************************)
\* the concatenation of a sequence of texts
RECURSIVE Concat(_)
Concat(texts) == IF texts = << >> THEN << >> ELSE Head(texts) \o Concat(Tail(texts))

\* the texts joined with sep between them
RECURSIVE Join(_, _)
Join(texts, sep) ==
  IF texts = << >> THEN << >>
  ELSE IF Len(texts) = 1 THEN texts[1]
  ELSE texts[1] \o sep \o Join(Tail(texts), sep)

\* '\\u{0:04x}'.format(n), n < 0x10000
EscapeU(n) ==
  <<BACKSLASH, Ord("u"), HexDigit(n \div 4096), HexDigit((n \div 256) % 16),
    HexDigit((n \div 16) % 16), HexDigit(n % 16)>>

\* ESCAPE_DCT without its entry for the quote
EscapeCharNoQuote(c) ==
  CASE c = BACKSLASH -> <<BACKSLASH, BACKSLASH>>
    [] c = LF -> <<BACKSLASH, Ord("n")>>
    [] c = CR -> <<BACKSLASH, Ord("r")>>
    [] c = TAB -> <<BACKSLASH, Ord("t")>>
    [] c = FF -> <<BACKSLASH, Ord("f")>>
    [] c = BS -> <<BACKSLASH, Ord("b")>>
    [] c >= SPACE /\ c <= TILDE /\ c # BACKSLASH -> <<c>>
    [] c >= 65536 -> EscapeU(55296 + (((c - 65536) \div 1024) % 1024))
                     \o EscapeU(56320 + ((c - 65536) % 1024))
    [] OTHER -> EscapeU(c)

\* ESCAPE_DCT without its entry for the line feed, which then goes out as
\* it is
EscapeCharRawNewline(c) ==
  CASE c = QUOTE -> <<BACKSLASH, QUOTE>>
    [] c = BACKSLASH -> <<BACKSLASH, BACKSLASH>>
    [] c = LF -> <<LF>>
    [] c = CR -> <<BACKSLASH, Ord("r")>>
    [] c = TAB -> <<BACKSLASH, Ord("t")>>
    [] c = FF -> <<BACKSLASH, Ord("f")>>
    [] c = BS -> <<BACKSLASH, Ord("b")>>
    [] c >= SPACE /\ c <= TILDE /\ c # QUOTE /\ c # BACKSLASH -> <<c>>
    [] c >= 65536 -> EscapeU(55296 + (((c - 65536) \div 1024) % 1024))
                     \o EscapeU(56320 + ((c - 65536) % 1024))
    [] OTHER -> EscapeU(c)

\* encoder.ESCAPE_DCT and py_encode_basestring_ascii's replace(): what one
\* character of a string becomes.  Only U+0020 .. U+007E other than the
\* quote and the backslash stay as they are (ESCAPE_ASCII); a character
\* beyond U+FFFF becomes a surrogate pair of escapes.
EscapeChar(c) ==
  CASE c = QUOTE -> <<BACKSLASH, QUOTE>>
    [] c = BACKSLASH -> <<BACKSLASH, BACKSLASH>>
    [] c = LF -> <<BACKSLASH, Ord("n")>>
    [] c = CR -> <<BACKSLASH, Ord("r")>>
    [] c = TAB -> <<BACKSLASH, Ord("t")>>
    [] c = FF -> <<BACKSLASH, Ord("f")>>
    [] c = BS -> <<BACKSLASH, Ord("b")>>
    [] c >= SPACE /\ c <= TILDE /\ c # QUOTE /\ c # BACKSLASH -> <<c>>
    [] c >= 65536 -> EscapeU(55296 + (((c - 65536) \div 1024) % 1024))
                     \o EscapeU(56320 + ((c - 65536) % 1024))
    [] OTHER -> EscapeU(c)

\* encoder.py_encode_basestring_ascii: the JSON string literal of s
encode_basestring_ascii(s) ==
  <<QUOTE>> \o Concat([i \in 1..Len(s) |-> EscapeChar(s[i])]) \o <<QUOTE>>

\* the decimal digits of n >= 0
RECURSIVE NatRepr(_)
NatRepr(n) ==
  IF n < 10 THEN <<ZERO + n>> ELSE Append(NatRepr(n \div 10), ZERO + (n % 10))

\* int.__repr__
IntRepr(n) == IF n < 0 THEN <<MINUS>> \o NatRepr(0 - n) ELSE NatRepr(n)

Zeros(n) == [i \in 1..n |-> ZERO]

\* float.__repr__ of a finite float: the shortest digits that give the same
\* double, in positional notation when the decimal point falls within
\* -4 < decpt <= 16 and in exponent notation otherwise
FiniteRepr(f) ==
  LET digits == NatRepr(f.m)
      n == Len(digits)
      decpt == n + f.e            \* the value is 0.digits * 10^decpt
      sign == IF f.neg THEN <<MINUS>> ELSE << >>
      x == decpt - 1
      xdigits == IF x < 0 THEN NatRepr(0 - x) ELSE NatRepr(x)
  IN sign \o
     (IF f.m = 0 THEN T(<<"0", ".", "0">>)
      ELSE IF decpt > 16 \/ decpt < 0 - 3
        THEN <<digits[1]>>
             \o (IF n > 1 THEN <<DOT>> \o SubSeq(digits, 2, n) ELSE << >>)
             \o <<Ord("e"), IF x < 0 THEN MINUS ELSE PLUS>>
             \o (IF Len(xdigits) < 2 THEN <<ZERO>> ELSE << >>) \o xdigits
      ELSE IF decpt <= 0
        THEN <<ZERO, DOT>> \o Zeros(0 - decpt) \o digits
      ELSE IF decpt >= n
        THEN digits \o Zeros(decpt - n) \o <<DOT, ZERO>>
      ELSE SubSeq(digits, 1, decpt) \o <<DOT>> \o SubSeq(digits, decpt + 1, n))

\* encoder.floatstr with allow_nan=True
floatstr(f) ==
  CASE f.k = "nan" -> NAN
    [] f.k = "inf" -> IF f.neg THEN NEG_INFINITY ELSE INFINITY
    [] OTHER -> FiniteRepr(f)

item_separator == <<COMMA, SPACE>>
key_separator == <<COLON, SPACE>>

\* JSONEncoder.iterencode with the defaults of json.dumps: ensure_ascii,
\* allow_nan, separators (', ', ': '), no indent, keys in dict order
RECURSIVE iterencode(_)
iterencode(o) ==
  CASE o.t = "str" -> encode_basestring_ascii(o.v)
    [] o.t = "NoneType" -> NULL
    [] o.t = "bool" -> IF o.v THEN TRUE_ ELSE FALSE_
    [] o.t = "int" -> IntRepr(o.v)
    [] o.t = "float" -> floatstr(o.v)
    [] o.t = "list" ->
         <<LBRACKET>>
         \o Join([i \in 1..Len(o.v) |-> iterencode(o.v[i])], item_separator)
         \o <<RBRACKET>>
    [] o.t = "dict" ->
         <<LBRACE>>
         \o Join([i \in 1..Len(o.v) |->
                    encode_basestring_ascii(o.v[i].key) \o key_separator
                    \o iterencode(o.v[i].val)], item_separator)
         \o <<RBRACE>>

dumps(obj) == iterencode(obj)


(***************************************************************************)
(* The process                                                             *)
(***************************************************************************)
VARIABLES
  stdin,        \* the text waiting on standard input
  stdinState,   \* "open"; "none": descriptor 0 is closed and sys.stdin is
                \* None; "error": the read fails (OSError, UnicodeDecodeError)
  consumed,     \* how much of stdin the process has read
  stdoutState,  \* "pipe": block buffered and writable; "tty": line buffered
                \* and writable; "full": block buffered, the device takes
                \* room more characters and then fails; "none": descriptor 1
                \* is closed and sys.stdout is None
  room,         \* see stdoutState = "full"
  buffer,       \* what print has put into sys.stdout and is not yet written
  stdout,       \* what has been written to descriptor 1
  pc,           \* the statement main() is at
  text,         \* the value of sys.stdin.read()
  input_data,   \* line 8
  prompt,       \* line 9
  result,       \* lines 12-14
  line,         \* the value of json.dumps(result)
  exc,          \* the exception that ended main(), "" when none
  status        \* the exit status, -1 while the process runs

vars == <<stdin, stdinState, consumed, stdoutState, room, buffer, stdout, pc,
          text, input_data, prompt, result, line, exc, status>>

env == <<stdin, stdinState, stdoutState, room>>

\* a local variable that is not bound yet
Unbound == [t |-> "unbound", v |-> 0]

PROMPT == T(<<"p", "r", "o", "m", "p", "t">>)
OUTPUT == T(<<"o", "u", "t", "p", "u", "t">>)

HasKey(d, key) == \E i \in 1..Len(d.v) : d.v[i].key = key

\* bool(v) is False
Falsy(v) ==
  \/ v.t = "NoneType"
  \/ v.t = "bool" /\ ~v.v
  \/ v.t = "int" /\ v.v = 0
  \/ v.t = "float" /\ v.v.k = "fin" /\ v.v.m = 0
  \/ v.t \in {"str", "list", "dict"} /\ Len(v.v) = 0

\* dict.get(key): the default is forgotten and an absent key gives None
GetNoDefault(d, key, default) ==
  IF HasKey(d, key)
  THEN d.v[CHOOSE i \in 1..Len(d.v) : d.v[i].key = key].val
  ELSE None

\* dict.get(key) or default: a falsy value gives the default too
GetOrDefault(d, key, default) ==
  IF HasKey(d, key)
     /\ ~Falsy(d.v[CHOOSE i \in 1..Len(d.v) : d.v[i].key = key].val)
  THEN d.v[CHOOSE i \in 1..Len(d.v) : d.v[i].key = key].val
  ELSE default

\* dict.get(key, default)
Get(d, key, default) ==
  IF HasKey(d, key)
  THEN d.v[CHOOSE i \in 1..Len(d.v) : d.v[i].key = key].val
  ELSE default

\* an exception leaves main(): the interpreter prints the traceback and
\* goes on to finalization
Raise(name) ==
  /\ exc' = name
  /\ pc' = "exit"

\* line 8: sys.stdin.read()
Read ==
  /\ pc = "read"
  /\ IF stdinState = "open"
     THEN /\ text' = stdin
          /\ consumed' = Len(stdin)
          /\ pc' = "loads"
          /\ exc' = exc
     ELSE /\ Raise(IF stdinState = "none" THEN "AttributeError" ELSE "OSError")
          /\ UNCHANGED <<text, consumed>>
  /\ UNCHANGED <<env, buffer, stdout, input_data, prompt, result, line, status>>

\* line 8: input_data = json.loads(...)
Loads ==
  /\ pc = "loads"
  /\ IF loads(text).ok
     THEN /\ input_data' = loads(text).val
          /\ pc' = "get"
          /\ exc' = exc
     ELSE /\ Raise("JSONDecodeError")
          /\ input_data' = input_data
  /\ UNCHANGED <<env, consumed, buffer, stdout, text, prompt, result, line, status>>

\* line 9 with a lookup that takes any value and finds no key in a value
\* that is not a dict
GetPromptAnyType ==
  /\ pc = "get"
  /\ prompt' = IF input_data.t = "dict"
               THEN Get(input_data, PROMPT, Str(<< >>))
               ELSE Str(<< >>)
  /\ pc' = "build"
  /\ UNCHANGED <<env, consumed, buffer, stdout, text, input_data, result, line,
                 exc, status>>

\* line 9: prompt = input_data.get('prompt', ''); only a dict has get
GetPrompt ==
  /\ pc = "get"
  /\ IF input_data.t = "dict"
     THEN /\ prompt' = Get(input_data, PROMPT, Str(<< >>))
          /\ pc' = "build"
          /\ exc' = exc
     ELSE /\ Raise("AttributeError")
          /\ prompt' = prompt
  /\ UNCHANGED <<env, consumed, buffer, stdout, text, input_data, result, line, status>>

\* lines 12-14 with the result built on the input: input_data['output'] =
\* prompt; result = input_data
BuildFromInput ==
  /\ pc = "build"
  /\ result' = Dict(DictSet(input_data.v, OUTPUT, prompt))
  /\ pc' = "dumps"
  /\ UNCHANGED <<env, consumed, buffer, stdout, text, input_data, prompt, line,
                 exc, status>>

\* lines 12-14: result = {'output': prompt}
Build ==
  /\ pc = "build"
  /\ result' = Dict(<<[key |-> OUTPUT, val |-> prompt]>>)
  /\ pc' = "dumps"
  /\ UNCHANGED <<env, consumed, buffer, stdout, text, input_data, prompt, line,
                 exc, status>>

\* line 16: json.dumps(result)
Dumps ==
  /\ pc = "dumps"
  /\ line' = dumps(result)
  /\ pc' = "print"
  /\ UNCHANGED <<env, consumed, buffer, stdout, text, input_data, prompt, result,
                 exc, status>>

\* line 16: print(...): the line and a newline go to sys.stdout.  print does
\* nothing when sys.stdout is None; a line buffered stream writes its buffer
\* out at the newline.
PrintLine ==
  /\ pc = "print"
  /\ IF stdoutState = "none"
     THEN UNCHANGED <<buffer, stdout>>
     ELSE IF stdoutState = "tty"
     THEN /\ stdout' = stdout \o buffer \o line \o <<LF>>
          /\ buffer' = << >>
     ELSE /\ buffer' = buffer \o line \o <<LF>>
          /\ stdout' = stdout
  /\ pc' = "exit"
  /\ UNCHANGED <<env, consumed, text, input_data, prompt, result, line, exc,
                 status>>

\* how much of the buffer descriptor 1 takes: all of it, or what a full
\* device still has room for before the write fails
Written ==
  IF stdoutState = "full" /\ room < Len(buffer) THEN room ELSE Len(buffer)

\* lines 18-19 and the interpreter's finalization: sys.stdout is flushed;
\* the status is 120 when the flush fails, 1 after an uncaught exception
\* and 0 otherwise
Exit ==
  /\ pc = "exit"
  /\ stdout' = stdout \o SubSeq(buffer, 1, Written)
  /\ buffer' = << >>
  /\ status' = IF Written < Len(buffer) THEN 120
               ELSE IF exc # "" THEN 1
               ELSE 0
  /\ pc' = "done"
  /\ UNCHANGED <<env, consumed, text, input_data, prompt, result, line, exc>>

Next == Read \/ Loads \/ GetPrompt \/ Build \/ Dumps \/ PrintLine \/ Exit

(***************************************************************************)
(* The contents of standard input the process is run on                    *)
(***************************************************************************)
MaxStrLen == 2      \* the longest string value
MaxDepth == 1       \* how deep arrays and objects nest inside a value
MaxRoom == 1        \* the most a full device still takes

\* the characters of string values: a letter, the two characters that JSON
\* must escape, a control character and a character outside ASCII
StrChars == {Ord("a"), QUOTE, BACKSLASH, LF, EACUTE}

RECURSIVE Strings(_)
Strings(n) ==
  IF n = 0 THEN {<< >>}
  ELSE Strings(n - 1)
       \cup {Append(s, c) : s \in Strings(n - 1), c \in StrChars}

\* a JSON string literal of s as a writer puts it on standard input, with
\* the characters outside ASCII escaped (ascii) or as they are
WriteChar(c, ascii) ==
  CASE c = QUOTE -> <<BACKSLASH, QUOTE>>
    [] c = BACKSLASH -> <<BACKSLASH, BACKSLASH>>
    [] c = LF -> <<BACKSLASH, Ord("n")>>
    [] c = TAB -> <<BACKSLASH, Ord("t")>>
    [] c < SPACE \/ (ascii /\ c > TILDE) -> EscapeU(c)
    [] OTHER -> <<c>>

WriteString(s, ascii) ==
  <<QUOTE>> \o Concat([i \in 1..Len(s) |-> WriteChar(s[i], ascii)]) \o <<QUOTE>>

Member(key, valueText) == WriteString(key, TRUE) \o <<COLON, SPACE>> \o valueText
Object(members) == <<LBRACE>> \o Join(members, <<COMMA, SPACE>>) \o <<RBRACE>>
Array(items) == <<LBRACKET>> \o Join(items, <<COMMA, SPACE>>) \o <<RBRACKET>>

StringTexts ==
  {WriteString(s, TRUE) : s \in Strings(MaxStrLen)}
  \cup {WriteString(s, FALSE) : s \in Strings(MaxStrLen)}
  \cup {T(<<"\"", "\\", "/", "\"">>), T(<<"\"", "\\", "u", "0", "0", "E", "9", "\"">>),
        T(<<"\"", "\\", "u", "d", "8", "0", "0", "\"">>)}

NumberTexts ==
  {T(<<"0">>), T(<<"1">>), T(<<"-", "1">>), T(<<"-", "0">>), T(<<"1", "2">>),
   T(<<"1", ".", "0">>), T(<<"0", ".", "0">>), T(<<"0", ".", "5">>),
   T(<<"1", "e", "2">>),
   T(<<"1", "E", "-", "5">>), T(<<"1", "e", "4", "0", "0">>)}

LiteralTexts == {NULL, TRUE_, FALSE_}

\* the constants json.loads takes although they are not JSON
ConstantTexts == {NAN, INFINITY, NEG_INFINITY}

InnerTexts ==
  {NULL, FALSE_, T(<<"0">>), T(<<"1", ".", "0">>), T(<<"\"", "\"">>),
   T(<<"\"", "a", "\"">>)}

KEY_K == T(<<"k">>)
KEY_X == T(<<"x">>)
KEY_PROMPT_CAP == T(<<"P", "r", "o", "m", "p", "t">>)

RECURSIVE ContainerTexts(_)
ContainerTexts(d) ==
  IF d = 0 THEN {}
  ELSE LET inner == InnerTexts \cup ContainerTexts(d - 1) IN
       {Array(<< >>), Object(<< >>)}
       \cup {Array(<<v>>) : v \in inner}
       \cup {Array(<<v, T(<<"1">>)>>) : v \in inner}
       \cup {Object(<<Member(KEY_K, v)>>) : v \in inner}
       \cup {Object(<<Member(PROMPT, v)>>) : v \in inner}

ValueTexts ==
  StringTexts \cup NumberTexts \cup LiteralTexts \cup ContainerTexts(MaxDepth)

\* the values that come with a second key
FewTexts == InnerTexts \cup {Array(<< >>), Object(<< >>), T(<<"\"", "\\", "n", "\"">>)}
OtherTexts == {T(<<"1">>), T(<<"\"", "a", "\"">>), Array(<<NULL>>)}

ObjectDocs ==
  {Object(<<Member(PROMPT, v)>>) : v \in ValueTexts}
  \cup {Object(<<Member(PROMPT, v), Member(KEY_X, w)>>) : v \in FewTexts, w \in OtherTexts}
  \cup {Object(<<Member(KEY_X, w), Member(PROMPT, v)>>) : v \in FewTexts, w \in OtherTexts}
  \cup {Object(<<Member(PROMPT, w), Member(PROMPT, v)>>) : v \in FewTexts, w \in OtherTexts}
  \cup {Object(<<Member(KEY_X, w)>>) : w \in OtherTexts \cup FewTexts}
  \cup {Object(<<Member(KEY_PROMPT_CAP, w)>>) : w \in OtherTexts}
  \cup {Object(<<Member(KEY_X, v), Member(KEY_K, w)>>) : v \in FewTexts, w \in OtherTexts}
  \cup {Object(<< >>)}

\* the same documents as other writers lay them out
Compact(key, valueText) ==
  <<LBRACE>> \o WriteString(key, TRUE) \o <<COLON>> \o valueText \o <<RBRACE>>
Spaced(key, valueText) ==
  <<SPACE, LBRACE, LF, TAB>> \o WriteString(key, TRUE) \o <<SPACE, COLON, CR>>
  \o valueText \o <<SPACE, RBRACE, LF>>

LayoutDocs ==
  {Compact(PROMPT, v) : v \in FewTexts}
  \cup {Spaced(PROMPT, v) : v \in FewTexts}
  \cup {Compact(KEY_X, v) : v \in FewTexts}
  \cup {d \o <<LF>> : d \in {Object(<< >>), Object(<<Member(PROMPT, T(<<"\"", "a", "\"">>))>>)}}

\* documents with a constant that only json.loads takes
ConstantDocs ==
  ConstantTexts
  \cup {Object(<<Member(PROMPT, c)>>) : c \in ConstantTexts}
  \cup {Object(<<Member(PROMPT, Array(<<c>>))>>) : c \in ConstantTexts}
  \cup {Object(<<Member(KEY_X, c)>>) : c \in ConstantTexts}
  \cup {Array(<<c>>) : c \in ConstantTexts}

Prefixes(s) == {SubSeq(s, 1, n) : n \in 0..(Len(s) - 1)}

SampleDoc ==
  Object(<<Member(PROMPT, T(<<"\"", "a", "\\", "\"", "b", "\"">>)),
           Member(KEY_X, Array(<<T(<<"1", ".", "5", "e", "1">>), TRUE_>>))>>)

\* texts that are not JSON
BrokenDocs ==
  Prefixes(SampleDoc)
  \cup { T(<<"n", "o", "t", " ", "j", "s", "o", "n">>),
         <<SPACE>>,
         SampleDoc \o T(<<" ", "x">>),
         Object(<< >>) \o Object(<< >>),
         T(<<"{", "'", "p", "r", "o", "m", "p", "t", "'", ":", " ", "1", "}">>),
         T(<<"{", "\"", "p", "r", "o", "m", "p", "t", "\"", ":", " ", "1", ",", "}">>),
         T(<<"{", "p", "r", "o", "m", "p", "t", ":", " ", "1", "}">>),
         Object(<<Member(PROMPT, T(<<"0", "1">>))>>),
         Object(<<Member(PROMPT, T(<<"1", ".">>))>>),
         Object(<<Member(PROMPT, T(<<"\"", "\\", "x", "\"">>))>>),
         Object(<<Member(PROMPT, T(<<"\"", "\\", "u", "0", "0", "e", "\"">>))>>),
         Object(<<Member(PROMPT, T(<<"n", "a", "n">>))>>),
         Object(<<Member(PROMPT, <<QUOTE, Ord("a"), LF, Ord("b"), QUOTE>>)>>),
         Object(<<Member(PROMPT, <<QUOTE, TAB, QUOTE>>)>>),
         Array(<<T(<<"1">>), T(<<"2">>)>>) \o <<RBRACKET>>,
         T(<<"[", "1", ",", "]">>),
         <<65279>> \o Object(<< >>) }

Documents ==
  ObjectDocs \cup LayoutDocs \cup ValueTexts \cup ConstantDocs \cup BrokenDocs

Init ==
  /\ stdin \in Documents
  /\ stdinState \in {"open", "none", "error"}
  /\ stdoutState \in {"pipe", "tty", "full", "none"}
  /\ room \in 0..MaxRoom
  /\ stdoutState # "full" => room = 0
  /\ consumed = 0
  /\ buffer = << >>
  /\ stdout = << >>
  /\ pc = "read"
  /\ text = << >>
  /\ input_data = Unbound
  /\ prompt = Unbound
  /\ result = Unbound
  /\ line = << >>
  /\ exc = ""
  /\ status = 0 - 1

Spec == Init /\ [][Next]_vars

(***************************************************************************)
(* Properties                                                              *)
(***************************************************************************)
Done == pc = "done"

\* what json.loads makes of standard input
Input == loads(stdin)

\* standard input holds a value json.loads takes, and it is an object
InputIsObject == Input.ok /\ Input.val.t = "dict"

\* one of NaN, Infinity, -Infinity stands in s outside a string literal
RECURSIVE ConstantFrom(_, _, _)
ConstantFrom(s, i, inString) ==
  IF i > Len(s) THEN FALSE
  ELSE IF inString
    THEN IF s[i] = BACKSLASH THEN ConstantFrom(s, i + 2, TRUE)
         ELSE ConstantFrom(s, i + 1, s[i] # QUOTE)
  ELSE IF s[i] \in {Ord("N"), Ord("I")} THEN TRUE
  ELSE ConstantFrom(s, i + 1, s[i] = QUOTE)

\* s is a JSON text (RFC 8259): what json.loads takes, less the three
\* constants that JSON does not have
IsJSON(s) == loads(s).ok /\ ~ConstantFrom(s, 1, FALSE)

\* the streams work: standard input can be read and standard output written
StdoutWritable == stdoutState \in {"pipe", "tty"}
StreamsWork == stdinState = "open" /\ StdoutWritable

\* out is one line: it ends with a line feed and has no other
OneLine(out) ==
  /\ Len(out) >= 1
  /\ out[Len(out)] = LF
  /\ \A i \in 1..(Len(out) - 1) : out[i] # LF

\* the line without its line feed
Chomp(out) == SubSeq(out, 1, Len(out) - 1)

\* what a reader of standard output gets by parsing the line
Output == loads(Chomp(stdout))

\* the run ended with status 0, its streams working
Succeeded == Done /\ status = 0 /\ StreamsWork

EMPTY == Str(<< >>)

EmptyOutputLine == T(<<"{", "\"", "o", "u", "t", "p", "u", "t", "\"", ":", " ", "\"", "\"", "}">>) \o <<LF>>

\* C2: when the input is an object without the key "prompt" and the streams
\* work, the run ends with status 0 and has written {"output": ""}.
C2_MissingPromptGivesEmptyString ==
  (Done /\ StreamsWork /\ InputIsObject /\ ~HasKey(Input.val, PROMPT)) =>
    /\ status = 0
    /\ exc = ""
    /\ stdout = EmptyOutputLine

\* a run on an object that has keys, none of them "prompt", has ended
C2_Witness ==
  /\ Done /\ StreamsWork /\ InputIsObject /\ ~HasKey(Input.val, PROMPT)
  /\ Len(Input.val.v) >= 1
  /\ stdout = EmptyOutputLine

\* a well-formed output line: one line that is a JSON object
WellFormedLine(out) ==
  OneLine(out) /\ IsJSON(Chomp(out)) /\ loads(Chomp(out)).val.t = "dict"

\* C3: a run ends either with one well-formed output line written and
\* status 0, or with a status other than 0 and nothing written.
C3_AtomicOrFails ==
  Done => \/ status = 0 /\ WellFormedLine(stdout)
          \/ status # 0 /\ stdout = << >>

\* C4: when standard input is not a JSON text (and the streams work), the
\* run ends with a status other than 0 and no valid output line.
C4_NotJsonFails ==
  (Done /\ StreamsWork /\ ~IsJSON(stdin)) =>
    status # 0 /\ ~WellFormedLine(stdout)

\* C5: when the input is a value json.loads takes that is not an object,
\* the lookup raises AttributeError and the run ends with a status other
\* than 0, nothing written.
C5_NotAnObjectFails ==
  (Done /\ stdinState = "open" /\ Input.ok /\ Input.val.t # "dict") =>
    /\ exc = "AttributeError"
    /\ status # 0
    /\ stdout = << >>
    /\ line = << >>

\* a run on an array has ended
C5_Witness ==
  Done /\ stdinState = "open" /\ Input.ok /\ Input.val.t = "list" /\ status = 1

\* one of the failures of a run: standard input is unreadable, is not JSON
\* or is not an object, or standard output cannot be written
Failure ==
  \/ stdinState # "open"
  \/ ~IsJSON(stdin)
  \/ Input.val.t # "dict"
  \/ ~StdoutWritable

\* C6: the exit status is 0 exactly when the run hit no failure.
C6_StatusZeroIffNoFailure == Done => (status = 0 <=> ~Failure)

\* C7: the object a successful run writes has exactly one key, "output".
C7_OnlyOutputKey ==
  (Succeeded /\ InputIsObject) =>
    /\ Output.ok
    /\ Output.val.t = "dict"
    /\ Len(Output.val.v) = 1
    /\ Output.val.v[1].key = OUTPUT
    /\ result.v = <<[key |-> OUTPUT, val |-> prompt]>>

\* a run on an object with "prompt" and another key has written its line
C7_Witness ==
  /\ Succeeded /\ InputIsObject
  /\ HasKey(Input.val, PROMPT) /\ HasKey(Input.val, KEY_X)
  /\ stdout # << >>

\* C9: the steps come in the order read, parse, look up, build, serialize,
\* print, exit: nothing reaches standard output or its buffer before all of
\* standard input is read and parsed, and a successful run has written
\* exactly one line, whatever line feeds the prompt has.
C9_ReadThenWriteOneLine ==
  /\ (stdout # << >> \/ buffer # << >>) =>
       /\ pc \in {"exit", "done"}
       /\ consumed = Len(stdin) /\ text = stdin
       /\ Input.ok /\ input_data = Input.val
       /\ line = dumps(result)
  /\ line # << >> => result # Unbound
  /\ result # Unbound => prompt # Unbound
  /\ prompt # Unbound => input_data # Unbound
  /\ input_data # Unbound => (consumed = Len(stdin) /\ text = stdin)
  /\ (Succeeded /\ InputIsObject) => OneLine(stdout)

\* a run has echoed a prompt with a line feed in it
C9_Witness ==
  /\ Succeeded /\ InputIsObject
  /\ prompt.t = "str" /\ \E i \in 1..Len(prompt.v) : prompt.v[i] = LF
  /\ OneLine(stdout)

\* C10: the value a successful run writes is the empty string exactly when
\* the key "prompt" is absent or its value is the empty string; a value
\* that is present, null and the other falsy values included, is written
\* as it is.
C10_DefaultOnlyWhenAbsent ==
  (Succeeded /\ InputIsObject) =>
    /\ Output.ok /\ Output.val.t = "dict"
    /\ (Get(Output.val, OUTPUT, Unbound) = EMPTY
          <=> (~HasKey(Input.val, PROMPT) \/ Get(Input.val, PROMPT, Unbound) = EMPTY))
    /\ (HasKey(Input.val, PROMPT) /\ Falsy(Get(Input.val, PROMPT, Unbound))) =>
          Get(Output.val, OUTPUT, Unbound) = Get(Input.val, PROMPT, Unbound)

\* a run has written the null it was given as the prompt
C10_Witness ==
  /\ Succeeded /\ InputIsObject
  /\ HasKey(Input.val, PROMPT) /\ Get(Input.val, PROMPT, Unbound) = None
  /\ Output.ok /\ Get(Output.val, OUTPUT, Unbound) = None

====
